---------------------------- MODULE Spec2Model ----------------------------
(***************************************************************************)
(* Model of the legal-document structuring core: the text normalizer, the  *)
(* two article segmenters (line-oriented for PDF text, paragraph-oriented  *)
(* for Word documents), the regex split, the context scan, the extraction  *)
(* orchestrator loop with its per-unit error capture and final save, and   *)
(* the result aggregator with its report.                                  *)
(*                                                                         *)
(* A text is a sequence of characters; a character is a one-token string.  *)
(* Di stands for the character that opens an article marker, Tiao for the  *)
(* one that closes it, "1" and "2" for two members of the numeral class,   *)
(* FW for the ideographic space U+3000, "x" "y" "z" for ordinary text.     *)
(***************************************************************************)
EXTENDS Integers, Sequences, FiniteSets, TLC

VARIABLES
    raw,            \* the text the document reader returned (PDF text, or the Word paragraphs joined)
    paragraphs,     \* the Word document's paragraphs (doc.paragraphs, each a text)
    equiv,          \* which text the Word document holds (raw or normalized) and how it is
                    \* cut into paragraphs: a paragraph per line, or lines joined by line breaks
    seg_pc,         \* position in the segmentation development
    normalized,     \* _clean_pdf_text(raw)
    renormalized,   \* _clean_pdf_text(normalized)
    pdf_articles,   \* result of the line-oriented segmenter
    docx_articles,  \* result of the paragraph-oriented segmenter
    regex_articles, \* result of split_articles_by_regex on the Word text
    regex_pieces,   \* what re.split returned inside it, before the blank pieces are filtered
    source_file,    \* the input file: "ok", "missing" or "corrupt"
    parser,         \* "pdf" or "docx": which parser runs the pipeline
    use_structured_extraction, \* parameter of parse_*_civil_code
    delay,          \* parameter of parse_*_civil_code
    pc,             \* position of the orchestrator
    articles,       \* the units handed to the loop (their request texts)
    i,              \* loop index (zero-based, as enumerate gives it)
    all_results,    \* the result list
    output_file,    \* the artifact: NoFile until written, then the dumped list
    requests,       \* history: the service requests issued, in order
    outcomes,       \* history: what each service call did, in order
    sleeps,         \* history: number of time.sleep calls made
    document_context, \* what extract_document_context returned (Word parser only)
    raised_exc,     \* the exception that left parse_*_civil_code, "none" when none did
    data,           \* the list JsonProcessor loaded from its input file
    processed_data, \* what _process_data returned for it
    stats,          \* what extract_articles_info returned for it
    agg_pc,         \* position in the aggregation development
    seg_phase,      \* the segmenter run step by step: "idle" between calls, "loop" inside one
    seg_lines,      \* local: the lines (or paragraphs) the running call iterates over
    seg_k,          \* local: the position of the for loop in them
    seg_current,    \* local: current_article
    seg_acc,        \* local: articles
    seg_visits,     \* history: the positions the running call has visited, in order
    seg_returned    \* history: what each finished call returned

vars == << raw, paragraphs, equiv, seg_pc, normalized, renormalized, pdf_articles,
           docx_articles, regex_articles, regex_pieces, source_file, parser, use_structured_extraction,
           delay, pc, articles, i, all_results, output_file, requests, outcomes, sleeps,
           document_context, raised_exc, data, processed_data, stats, agg_pc,
           seg_phase, seg_lines, seg_k, seg_current, seg_acc, seg_visits, seg_returned >>

segVars == << seg_pc, normalized, renormalized, pdf_articles, docx_articles, regex_articles,
              regex_pieces >>
runVars == << source_file, parser, use_structured_extraction, delay, pc, articles, i,
              all_results, output_file, requests, outcomes, sleeps, document_context,
              raised_exc >>
aggVars == << data, processed_data, stats, agg_pc >>
passVars == << seg_phase, seg_lines, seg_k, seg_current, seg_acc, seg_visits, seg_returned >>

----------------------------------------------------------------------------
(* Characters *)

Di   == "D"
Tiao == "T"
SP   == " "
NL   == "\n"
CR   == "\r"
FW   == "fw"

Numerals == {"1", "2"}

\* what str.strip() removes and what \s matches
Whitespace == {SP, NL, CR, FW}

----------------------------------------------------------------------------
(* Bounds *)

MaxLen   == 4      \* longest text enumerated character by character
MaxLines == 3      \* most lines of a text built from LineVocab
MaxParas == 3      \* most lines of a document handed to the orchestrator

CharAlphabet == {Di, "1", Tiao, SP, NL, CR, "x"}

RECURSIVE TextsUpTo(_)
TextsUpTo(n) ==
    IF n = 0 THEN {<< >>}
    ELSE LET shorter == TextsUpTo(n - 1)
         IN  shorter \cup {Append(t, c) : t \in {s \in shorter : Len(s) = n - 1}, c \in CharAlphabet}

LineVocab ==
    { << Di, "1", Tiao >>,
      << Di, "2", Tiao, SP, "x" >>,
      << "y" >>,
      << "z", Di, "1", Tiao >> }

RECURSIVE Join(_, _)
Join(ls, sep) ==
    IF ls = << >> THEN << >>
    ELSE IF Len(ls) = 1 THEN ls[1]
    ELSE ls[1] \o sep \o Join(Tail(ls), sep)

RECURSIVE LineSeqsUpTo(_, _)
LineSeqsUpTo(vocab, n) ==
    IF n = 0 THEN {<< >>}
    ELSE LET shorter == LineSeqsUpTo(vocab, n - 1)
         IN  shorter \cup {Append(t, l) : t \in {s \in shorter : Len(s) = n - 1}, l \in vocab}

\* the text of the specification's scenario
ScenarioText ==
    << Di, "1", Tiao, SP, "x", NL, Di, "2", Tiao, FW, "y", NL, "z" >>

ScenarioExpected ==
    << [title |-> << Di, "1", Tiao >>, content |-> << "x" >>],
       [title |-> << Di, "2", Tiao >>, content |-> << "y", NL, "z" >>] >>

\* the documents made of whole lines
LineDocuments == {Join(ls, << NL >>) : ls \in LineSeqsUpTo(LineVocab, MaxLines)}

SegInputs == TextsUpTo(MaxLen) \cup LineDocuments \cup {ScenarioText}

----------------------------------------------------------------------------
(* The article-marker pattern                                              *)

\* first index at or after j that holds no numeral
RECURSIVE NumeralRun(_, _)
NumeralRun(s, j) ==
    IF j <= Len(s) /\ s[j] \in Numerals THEN NumeralRun(s, j + 1) ELSE j

\* index of the last character of the marker that starts at k, 0 when none starts there
MarkerEnd(s, k) ==
    IF k >= 1 /\ k <= Len(s) /\ s[k] = Di
    THEN LET j == NumeralRun(s, k + 1)
         IN  IF j > k + 1 /\ j <= Len(s) /\ s[j] = Tiao THEN j ELSE 0
    ELSE 0

\* re.match(pattern, s): anchored at the start
MatchesMarker(s) == MarkerEnd(s, 1) # 0

\* the starts of all matches of the pattern in s, in order (matches cannot overlap)
MarkerStarts(s) == {k \in 1..Len(s) : MarkerEnd(s, k) # 0}

RECURSIVE MarkersFrom(_, _)
MarkersFrom(s, k) ==
    IF k > Len(s) THEN << >>
    ELSE LET e == MarkerEnd(s, k)
         IN  IF e # 0 THEN << SubSeq(s, k, e) >> \o MarkersFrom(s, e + 1)
             ELSE MarkersFrom(s, k + 1)

\* re.findall(pattern, s)
Markers(s) == MarkersFrom(s, 1)

----------------------------------------------------------------------------
(* str helpers                                                             *)

RECURSIVE LStrip(_)
LStrip(s) == IF s # << >> /\ Head(s) \in Whitespace THEN LStrip(Tail(s)) ELSE s

RECURSIVE RStrip(_)
RStrip(s) ==
    IF s # << >> /\ s[Len(s)] \in Whitespace THEN RStrip(SubSeq(s, 1, Len(s) - 1)) ELSE s

\* str.strip()
Strip(s) == RStrip(LStrip(s))

\* str.replace(a two-character old, a one-character new)
RECURSIVE Replace2(_, _, _, _)
Replace2(s, a, b, new) ==
    IF Len(s) < 2 THEN s
    ELSE IF s[1] = a /\ s[2] = b THEN << new >> \o Replace2(SubSeq(s, 3, Len(s)), a, b, new)
    ELSE << s[1] >> \o Replace2(Tail(s), a, b, new)

\* str.replace(a one-character old, a one-character new)
Replace1(s, a, new) == [k \in 1..Len(s) |-> IF s[k] = a THEN new ELSE s[k]]

\* re.sub(c+, c, s): every run of c becomes one c
RECURSIVE CollapseRuns(_, _)
CollapseRuns(s, c) ==
    IF Len(s) < 2 THEN s
    ELSE IF s[1] = c /\ s[2] = c THEN CollapseRuns(Tail(s), c)
    ELSE << s[1] >> \o CollapseRuns(Tail(s), c)

\* str.split(sep) for a one-character separator: the pieces, empty ones included
RECURSIVE SplitFrom(_, _, _)
SplitFrom(s, sep, piece) ==
    IF s = << >> THEN << piece >>
    ELSE IF Head(s) = sep THEN << piece >> \o SplitFrom(Tail(s), sep, << >>)
    ELSE SplitFrom(Tail(s), sep, Append(piece, Head(s)))

Split(s, sep) == SplitFrom(s, sep, << >>)

----------------------------------------------------------------------------
(* Text Normalizer                                                         *)

\* a substitution that inserts nothing
InsertNoBreaks(s, k) == SubSeq(s, k, Len(s))

\* re.sub(r'(marker)', r'\n\1', s): a newline goes in front of every match
RECURSIVE InsertBreaks(_, _)
InsertBreaks(s, k) ==
    IF k > Len(s) THEN << >>
    ELSE LET e == MarkerEnd(s, k)
         IN  IF e # 0 THEN << NL >> \o SubSeq(s, k, e) \o InsertBreaks(s, e + 1)
             ELSE << s[k] >> \o InsertBreaks(s, k + 1)

_clean_pdf_text(text) ==
    LET t1 == Replace2(text, CR, NL, NL)
        t2 == Replace1(t1, CR, NL)
        t3 == CollapseRuns(t2, SP)
        t4 == CollapseRuns(t3, NL)
        t5 == InsertBreaks(t4, 1)
    IN  Strip(t5)

----------------------------------------------------------------------------
(* Article Segmenter: the line-oriented state machine (PDF text)           *)

NoArticle == [title |-> << >>, content |-> << >>]

\* a Flush that also wants content: a unit with an empty content would be dropped
FlushNonEmptyContent(arts, current_article) ==
    IF current_article.title # << >> /\ current_article.content # << >>
    THEN Append(arts, current_article) ELSE arts

\* a Flush that merges a unit into the one before it when the two carry the same title
FlushMergingRepeats(arts, current_article) ==
    IF current_article.title # << >>
         /\ (arts = << >> \/ arts[Len(arts)].title # current_article.title)
    THEN Append(arts, current_article) ELSE arts

\* articles.append(current_article.copy()) when a title is open
Flush(arts, current_article) ==
    IF current_article.title # << >> THEN Append(arts, current_article) ELSE arts

\* current_article["content"] += "\n" + line, or = line when it is empty
AddLine(current_article, line) ==
    IF current_article.content # << >>
    THEN [current_article EXCEPT !.content = @ \o << NL >> \o line]
    ELSE [current_article EXCEPT !.content = line]

\* the new unit a marker line opens in the PDF parser: the whole line is the title
PdfOpenUnit(line) == [title |-> line, content |-> << >>]

RECURSIVE PdfLoop(_, _, _, _)
PdfLoop(lines, k, arts, current_article) ==
    IF k > Len(lines) THEN Flush(arts, current_article)
    ELSE LET line == Strip(lines[k])
         IN  IF line = << >> THEN PdfLoop(lines, k + 1, arts, current_article)
             ELSE IF MatchesMarker(line)
                  THEN PdfLoop(lines, k + 1, Flush(arts, current_article), PdfOpenUnit(line))
             ELSE IF current_article.title # << >>
                  THEN PdfLoop(lines, k + 1, arts, AddLine(current_article, line))
             ELSE PdfLoop(lines, k + 1, arts, current_article)

\* the loop of extract_articles_from_pdf over full_text.split('\n')
SegmentLines(lines) == PdfLoop(lines, 1, << >>, NoArticle)

extract_articles_from_pdf(full_text) ==
    SegmentLines(Split(_clean_pdf_text(full_text), NL))

----------------------------------------------------------------------------
(* Article Segmenter: the paragraph-oriented state machine (Word document) *)

\* the part of s before its first newline: what (.*) matches
RECURSIVE UpToNewline(_)
UpToNewline(s) ==
    IF s = << >> \/ Head(s) = NL THEN << >> ELSE << Head(s) >> \o UpToNewline(Tail(s))

\* a DocxOpenUnit that forgets the text after the marker
DocxOpenUnitNoTrailing(text) ==
    [title |-> SubSeq(text, 1, MarkerEnd(text, 1)), content |-> << >>]

\* re.match(r'(marker)\s*(.*)', text): group 1 is the title, group 2 stripped the content
DocxOpenUnit(text) ==
    LET e == MarkerEnd(text, 1)
    IN  [title   |-> SubSeq(text, 1, e),
         content |-> Strip(UpToNewline(LStrip(SubSeq(text, e + 1, Len(text)))))]

RECURSIVE DocxLoop(_, _, _, _)
DocxLoop(paras, k, arts, current_article) ==
    IF k > Len(paras) THEN Flush(arts, current_article)
    ELSE LET text == Strip(paras[k])
         IN  IF text = << >> THEN DocxLoop(paras, k + 1, arts, current_article)
             ELSE IF MatchesMarker(text)
                  THEN DocxLoop(paras, k + 1, Flush(arts, current_article), DocxOpenUnit(text))
             ELSE IF current_article.title # << >>
                  THEN DocxLoop(paras, k + 1, arts, AddLine(current_article, text))
             ELSE DocxLoop(paras, k + 1, arts, current_article)

\* the loop of extract_articles_from_docx over doc.paragraphs
extract_articles_from_docx(paras) == DocxLoop(paras, 1, << >>, NoArticle)

----------------------------------------------------------------------------
(* Regex split                                                             *)

\* a split that cuts after the character that opens the marker
RECURSIVE ReSplitBehind(_, _, _)
ReSplitBehind(s, k, piece) ==
    IF k > Len(s) THEN << piece >>
    ELSE IF MarkerEnd(s, k) # 0 THEN << Append(piece, s[k]) >> \o ReSplitBehind(s, k + 1, << >>)
    ELSE ReSplitBehind(s, k + 1, Append(piece, s[k]))

\* re.split(r'(?=marker)', text): cut in front of every match, empty pieces kept
RECURSIVE ReSplit(_, _, _)
ReSplit(s, k, piece) ==
    IF k > Len(s) THEN << piece >>
    ELSE IF MarkerEnd(s, k) # 0 THEN << piece >> \o ReSplit(s, k + 1, << s[k] >>)
    ELSE ReSplit(s, k + 1, Append(piece, s[k]))

NotBlank(art) == Strip(art) # << >>

\* a split that keeps the blank pieces
split_articles_keep_blank(text) == ReSplit(text, 1, << >>)

\* articles = re.split(pattern, text)
re_split(text) == ReSplit(text, 1, << >>)

split_articles_by_regex(text) == SelectSeq(re_split(text), NotBlank)

\* read_docx_file: the stripped non-empty paragraphs joined by newlines
RECURSIVE StrippedNonEmpty(_)
StrippedNonEmpty(paras) ==
    IF paras = << >> THEN << >>
    ELSE LET text == Strip(Head(paras))
         IN  IF text # << >> THEN << text >> \o StrippedNonEmpty(Tail(paras))
             ELSE StrippedNonEmpty(Tail(paras))

read_docx_file(paras) == Join(StrippedNonEmpty(paras), << NL >>)

----------------------------------------------------------------------------
(* The segmentation development: each function applied to a drawn input    *)

\* the artifact: not written, or holding what json.dump wrote
NoFile        == [written |-> FALSE, data |-> << >>]
Written(dumped) == [written |-> TRUE, data |-> dumped]

\* the Word document that holds the same text as the PDF: one paragraph per line
ParagraphsOf(text) == Split(text, NL)

\* Paragraph.text gives "\n" for a line break (w:br) inside a paragraph: the same
\* text typed as one paragraph, its lines separated by line breaks
OneParagraph(text) == << text >>

\* the first line a paragraph of its own, the other lines one paragraph with line breaks
HeadAndBody(text) ==
    LET ls == Split(text, NL)
    IN  IF Len(ls) < 2 THEN ls ELSE << ls[1], Join(Tail(ls), << NL >>) >>

\* how the Word document holds the text
Layouts(text) ==
    {"raw", "normalized"} \cup (IF text \in LineDocuments THEN {"soft", "soft_tail"} ELSE {})

DocumentParagraphs(text, layout) ==
    CASE layout = "raw"        -> ParagraphsOf(text)
      [] layout = "normalized" -> ParagraphsOf(_clean_pdf_text(text))
      [] layout = "soft"       -> OneParagraph(text)
      [] layout = "soft_tail"  -> HeadAndBody(text)

IdleAgg ==
    /\ data = << >>
    /\ processed_data = << >>
    /\ stats = << >>
    /\ agg_pc = "idle"

IdlePass ==
    /\ seg_phase = "idle"
    /\ seg_lines = << >>
    /\ seg_k = 0
    /\ seg_current = NoArticle
    /\ seg_acc = << >>
    /\ seg_visits = << >>
    /\ seg_returned = << >>

IdleRun ==
    /\ source_file = "ok"
    /\ document_context = << >>
    /\ raised_exc = "none"
    /\ parser = "none"
    /\ use_structured_extraction = TRUE
    /\ delay = 0
    /\ pc = "idle"
    /\ articles = << >>
    /\ i = 0
    /\ all_results = << >>
    /\ output_file = NoFile
    /\ requests = << >>
    /\ outcomes = << >>
    /\ sleeps = 0

SegInit ==
    /\ raw \in SegInputs
    /\ equiv \in Layouts(raw)
    /\ paragraphs = DocumentParagraphs(raw, equiv)
    /\ seg_pc = "raw"
    /\ normalized = << >>
    /\ renormalized = << >>
    /\ pdf_articles = << >>
    /\ docx_articles = << >>
    /\ regex_articles = << >>
    /\ regex_pieces = << >>
    /\ IdleRun
    /\ IdleAgg
    /\ IdlePass

CleanPdfText ==
    /\ seg_pc = "raw"
    /\ normalized' = _clean_pdf_text(raw)
    /\ seg_pc' = "cleaned"
    /\ UNCHANGED << raw, paragraphs, equiv, renormalized, pdf_articles, docx_articles,
                    regex_articles, regex_pieces, runVars, aggVars, passVars >>

\* the normalizer applied to its own output
CleanAgain ==
    /\ seg_pc = "cleaned"
    /\ renormalized' = _clean_pdf_text(normalized)
    /\ seg_pc' = "recleaned"
    /\ UNCHANGED << raw, paragraphs, equiv, normalized, pdf_articles, docx_articles,
                    regex_articles, regex_pieces, runVars, aggVars, passVars >>

ExtractPdf ==
    /\ seg_pc = "recleaned"
    /\ pdf_articles' = extract_articles_from_pdf(raw)
    /\ seg_pc' = "pdf"
    /\ UNCHANGED << raw, paragraphs, equiv, normalized, renormalized, docx_articles,
                    regex_articles, regex_pieces, runVars, aggVars, passVars >>

ExtractDocx ==
    /\ seg_pc = "pdf"
    /\ docx_articles' = extract_articles_from_docx(paragraphs)
    /\ seg_pc' = "docx"
    /\ UNCHANGED << raw, paragraphs, equiv, normalized, renormalized, pdf_articles,
                    regex_articles, regex_pieces, runVars, aggVars, passVars >>

SplitRegex ==
    /\ seg_pc = "docx"
    /\ regex_pieces' = re_split(read_docx_file(paragraphs))
    /\ regex_articles' = split_articles_by_regex(read_docx_file(paragraphs))
    /\ seg_pc' = "split"
    /\ UNCHANGED << raw, paragraphs, equiv, normalized, renormalized, pdf_articles,
                    docx_articles, runVars, aggVars, passVars >>

SegNext == CleanPdfText \/ CleanAgain \/ ExtractPdf \/ ExtractDocx \/ SplitRegex

SegSpec == SegInit /\ [][SegNext]_vars

----------------------------------------------------------------------------
(* Extraction Orchestrator                                                 *)

\* Python values as the result list holds them
PyDict(fields) == [type |-> "dict", val |-> fields]
PyList(items)  == [type |-> "list", val |-> items]
PyNone         == [type |-> "NoneType", val |-> << >>]

\* texts the service may answer with: a JSON object, a JSON array, no JSON at all
RespObject  == "{\"content\": \"c\"}"
RespArray   == "[{\"content\": \"c\"}, {\"content\": \"d\"}]"
RespGarbage == "sorry"
Responses   == {RespObject, RespArray, RespGarbage}

\* json.loads: whether it returns, and what
JsonValid(text) == text \in {RespObject, RespArray}
JsonLoads(text) ==
    IF text = RespObject THEN PyDict([content |-> "c"])
    ELSE PyList(<< PyDict([content |-> "c"]), PyDict([content |-> "d"]) >>)

\* exceptions client.chat.completions.create may raise; json.JSONDecodeError is
\* what the client lets through when the HTTP body itself is not JSON
Exceptions == {"JSONDecodeError", "APITimeoutError", "AuthenticationError"}

Returned(text) == [kind |-> "returned", response |-> text, exc |-> "none"]
Raised(e)      == [kind |-> "raised", response |-> "none", exc |-> e]
CallOutcomes   == {Returned(r) : r \in Responses} \cup {Raised(e) : e \in Exceptions}

\* f"Failed to parse JSON for article {n}" and f"Other error for article {n}"
FailedToParse(n) == << "Failed to parse JSON for article ", n >>
OtherError(n)    == << "Other error for article ", n >>

Return(value) == [raised |-> FALSE, value |-> value, exc |-> "none"]
Raise(e)      == [raised |-> TRUE, value |-> PyNone, exc |-> e]

\* a record that numbers the article by its zero-based index
ParseFailureRecordZeroBased(article_index, model_response) ==
    PyDict([error |-> FailedToParse(article_index), raw_response |-> model_response])

\* the record of the except json.JSONDecodeError branch
ParseFailureRecord(article_index, model_response) ==
    PyDict([error |-> FailedToParse(article_index + 1), raw_response |-> model_response])

\* a record that carries a raw_response although nothing was received
OtherErrorRecordWithRaw(article_index) ==
    PyDict([error |-> OtherError(article_index + 1), raw_response |-> "none"])

\* the record of the except Exception branch
OtherErrorRecord(article_index) ==
    PyDict([error |-> OtherError(article_index + 1)])

\* parse_single_article from the service call on: what it returns, or raises.
\* When create itself raises json.JSONDecodeError, model_response is not bound yet
\* and the first except branch, which reads it, raises UnboundLocalError.
parse_single_article(article_index, outcome) ==
    IF outcome.kind = "returned"
    THEN IF JsonValid(outcome.response)
         THEN Return(JsonLoads(outcome.response))
         ELSE Return(ParseFailureRecord(article_index, outcome.response))
    ELSE IF outcome.exc = "JSONDecodeError"
         THEN Raise("UnboundLocalError")
         ELSE Return(OtherErrorRecord(article_index))

\* the text of a unit as the orchestrator sends it: title, newline, content
UnitText(article) == article.title \o << NL >> \o article.content

\* an append that puts the new record first
PrependResult(results, result) == << result >> \o results

\* all_results.append(result)
AppendResult(results, result) == Append(results, result)

\* what the loop sends for an article: title and content joined, or the segment
RequestText(article) ==
    IF use_structured_extraction THEN UnitText(article) ELSE article

\* the articles the pipeline works on
SegmentDocument ==
    IF use_structured_extraction
    THEN IF parser = "pdf" THEN extract_articles_from_pdf(raw)
         ELSE extract_articles_from_docx(paragraphs)
    ELSE IF parser = "pdf" THEN split_articles_by_regex(raw)
         ELSE split_articles_by_regex(read_docx_file(paragraphs))

RunVocab ==
    { << Di, "1", Tiao >>,
      << Di, "2", Tiao, SP, "x" >>,
      << "y" >>,
      << SP >> }

RunInputs == {Join(ls, << NL >>) : ls \in LineSeqsUpTo(RunVocab, MaxParas)}

IdleSeg ==
    /\ seg_pc = "idle"
    /\ normalized = << >>
    /\ renormalized = << >>
    /\ pdf_articles = << >>
    /\ docx_articles = << >>
    /\ regex_articles = << >>
    /\ regex_pieces = << >>

\* the delay parameter: negative, zero, positive
DelayValues == {-1, 0, 1}

\* whether the input file can be read
FileStates == {"ok", "missing", "corrupt"}

Init ==
    /\ source_file \in FileStates
    /\ raw \in (IF source_file = "ok" THEN RunInputs ELSE {<< >>})
    /\ equiv = "raw"
    /\ paragraphs = ParagraphsOf(raw)
    /\ IdleSeg
    /\ IdlePass
    /\ IdleAgg
    /\ parser \in {"pdf", "docx"}
    /\ use_structured_extraction \in BOOLEAN
    /\ delay \in DelayValues
    /\ pc = "start"
    /\ articles = << >>
    /\ i = 0
    /\ all_results = << >>
    /\ output_file = NoFile
    /\ requests = << >>
    /\ outcomes = << >>
    /\ sleeps = 0
    /\ document_context = << >>
    /\ raised_exc = "none"

\* what no step of a run changes: the document, the parameters, the other developments
docVars == << raw, paragraphs, equiv, segVars, source_file, parser,
              use_structured_extraction, delay, aggVars, passVars >>

\* a keyword of the context scan (one of the eight, two characters of it)
Keyword == << "k", "w" >>

\* text.replace(" ", "")
RECURSIVE RemoveSpaces(_)
RemoveSpaces(s) ==
    IF s = << >> THEN << >>
    ELSE IF Head(s) = SP THEN RemoveSpaces(Tail(s))
    ELSE << Head(s) >> \o RemoveSpaces(Tail(s))

\* keyword in text
Contains(text, word) ==
    \E k \in 1..(Len(text) - Len(word) + 1) : SubSeq(text, k, k + Len(word) - 1) = word

\* any(keyword in text or keyword in text_without_spaces ...)
HasKeyword(text) == Contains(text, Keyword) \/ Contains(RemoveSpaces(text), Keyword)

\* doc.paragraphs[:20]
ContextBudget == 20

\* the scan of extract_document_context: keyword lines are collected up to and
\* including the first marker line, where the scan breaks
RECURSIVE ContextLoop(_, _, _)
ContextLoop(paras, k, context_lines) ==
    IF k > Len(paras) \/ k > ContextBudget THEN context_lines
    ELSE LET text == Strip(paras[k])
             kept == IF HasKeyword(text) THEN Append(context_lines, text) ELSE context_lines
         IN  IF text = << >> THEN ContextLoop(paras, k + 1, context_lines)
             ELSE IF MatchesMarker(text) THEN kept
             ELSE ContextLoop(paras, k + 1, kept)

\* extract_document_context: the collected lines joined; any exception (the file
\* cannot be opened) is swallowed and the empty string returned
extract_document_context(paras, file_state) ==
    IF file_state = "ok" THEN Join(ContextLoop(paras, 1, << >>), << NL >>) ELSE << >>

\* where the run stands when it turns to reading the articles
ReadPoint == IF parser = "docx" THEN "context" ELSE "start"

\* document_context = self.extract_document_context(input_file), Word parser only
ExtractContext ==
    /\ pc = "start"
    /\ parser = "docx"
    /\ document_context' = extract_document_context(paragraphs, source_file)
    /\ pc' = "context"
    /\ UNCHANGED << docVars, articles, i, all_results, output_file, requests, outcomes,
                    sleeps, raised_exc >>

\* a reader whose failure reaches nobody
ReadFailureSwallowed == "none"

\* the exception that reaches the caller when the file cannot be read: the
\* segmenters and read_docx_file wrap every failure in Exception, read_pdf_file
\* lets FileNotFoundError through as FileNotFoundError
ReadFailure ==
    IF parser = "pdf" /\ ~use_structured_extraction /\ source_file = "missing"
    THEN "FileNotFoundError" ELSE "Exception"

\* reading raises: the exception leaves parse_*_civil_code
ReadFails ==
    /\ pc = ReadPoint
    /\ source_file # "ok"
    /\ raised_exc' = ReadFailure
    /\ pc' = "raised"
    /\ UNCHANGED << docVars, articles, i, all_results, output_file, requests, outcomes,
                    sleeps, document_context >>

\* reading and segmenting, up to all_results = []
ReadAndSegment ==
    /\ pc = ReadPoint
    /\ source_file = "ok"
    /\ articles' = SegmentDocument
    /\ all_results' = << >>
    /\ i' = 0
    /\ pc' = "loop"
    /\ UNCHANGED << docVars, output_file, requests, outcomes, sleeps, document_context,
                    raised_exc >>

\* a loop that does not wait: the next request goes out while one is outstanding
IssueRequestEarly ==
    /\ pc \in {"loop", "await"}
    /\ Len(requests) < Len(articles)
    /\ requests' = Append(requests, [index |-> Len(requests),
                                     text  |-> RequestText(articles[Len(requests) + 1])])
    /\ pc' = "await"
    /\ UNCHANGED << docVars, articles, i, all_results, output_file, outcomes, sleeps,
                    document_context, raised_exc >>

\* the loop takes the next article and calls the service
IssueRequest ==
    /\ pc = "loop"
    /\ i < Len(articles)
    /\ requests' = Append(requests, [index |-> i, text |-> RequestText(articles[i + 1])])
    /\ pc' = "await"
    /\ UNCHANGED << docVars, articles, i, all_results, output_file, outcomes, sleeps,
                    document_context, raised_exc >>

\* a test that sleeps for every delay but zero
ShouldSleepNonZero == delay # 0

\* if delay > 0
ShouldSleep == delay > 0

\* the rest of the iteration once the call has ended with `outcome`
FinishCall(outcome) ==
    LET result == parse_single_article(i, outcome)
    IN  /\ outcomes' = Append(outcomes, outcome)
        /\ IF result.raised
           THEN /\ pc' = "crashed"
                /\ raised_exc' = result.exc
                /\ UNCHANGED << all_results, i >>
           ELSE /\ all_results' = AppendResult(all_results, result.value)
                /\ raised_exc' = raised_exc
                /\ IF ShouldSleep
                   THEN pc' = "sleep" /\ i' = i
                   ELSE pc' = "loop" /\ i' = i + 1
        /\ UNCHANGED << docVars, articles, output_file, requests, sleeps, document_context >>

ServiceReturns ==
    /\ pc = "await"
    /\ \E r \in Responses : FinishCall(Returned(r))

ServiceRaises ==
    /\ pc = "await"
    /\ \E e \in Exceptions : FinishCall(Raised(e))

\* a sleep during which the following unit is lost
SleepSkipsUnit ==
    /\ pc = "sleep"
    /\ sleeps' = sleeps + 1
    /\ i' = i + 2
    /\ pc' = "loop"
    /\ UNCHANGED << docVars, articles, all_results, output_file, requests, outcomes,
                    document_context, raised_exc >>

\* time.sleep(delay) returns
Sleep ==
    /\ pc = "sleep"
    /\ sleeps' = sleeps + 1
    /\ i' = i + 1
    /\ pc' = "loop"
    /\ UNCHANGED << docVars, articles, all_results, output_file, requests, outcomes,
                    document_context, raised_exc >>

\* KeyboardInterrupt once the loop has begun: no except clause catches it
Interrupt ==
    /\ \/ pc \in {"await", "sleep"}
       \/ pc = "loop" /\ 0 < i /\ i < Len(articles)
    /\ pc' = "interrupted"
    /\ UNCHANGED << docVars, articles, i, all_results, output_file, requests, outcomes,
                    sleeps, document_context, raised_exc >>

\* a save that streams: the list is dumped after every unit
SaveStreaming ==
    /\ pc = "loop"
    /\ output_file' = Written(all_results)
    /\ pc' = IF i >= Len(articles) THEN "done" ELSE "loop"
    /\ output_file' # output_file
    /\ UNCHANGED << docVars, articles, i, all_results, requests, outcomes, sleeps,
                    document_context, raised_exc >>

\* json.dump(all_results, f) after the loop
Save ==
    /\ pc = "loop"
    /\ i >= Len(articles)
    /\ output_file' = Written(all_results)
    /\ pc' = "done"
    /\ UNCHANGED << docVars, articles, i, all_results, requests, outcomes, sleeps,
                    document_context, raised_exc >>

Next ==
    ExtractContext \/ ReadFails \/ ReadAndSegment \/ IssueRequest \/ ServiceReturns
        \/ ServiceRaises \/ Sleep \/ Save \/ Interrupt

Spec == Init /\ [][Next]_vars

\* the state in which the loop is entered: the document read and segmented
LoopInit ==
    /\ source_file = "ok"
    /\ raw \in RunInputs
    /\ equiv = "raw"
    /\ paragraphs = ParagraphsOf(raw)
    /\ IdleSeg
    /\ IdlePass
    /\ IdleAgg
    /\ parser \in {"pdf", "docx"}
    /\ use_structured_extraction \in BOOLEAN
    /\ delay \in DelayValues
    /\ document_context =
          (IF parser = "docx" THEN extract_document_context(paragraphs, source_file) ELSE << >>)
    /\ raised_exc = "none"
    /\ pc = "loop"
    /\ articles = SegmentDocument
    /\ i = 0
    /\ all_results = << >>
    /\ output_file = NoFile
    /\ requests = << >>
    /\ outcomes = << >>
    /\ sleeps = 0

LoopNext == IssueRequest \/ ServiceReturns \/ ServiceRaises \/ Sleep \/ Save

\* the loop and the save with no interrupt, every call ending and the
\* single-threaded run taking its next step whenever it has one
LiveSpec == LoopInit /\ [][LoopNext]_vars /\ WF_vars(LoopNext)

----------------------------------------------------------------------------
(* Result Aggregator: JsonProcessor._process_data                          *)

PyStr(text) == [type |-> "str", val |-> text]

RecA == PyDict([content |-> PyStr(<< "a" >>)])
RecB == PyDict([content |-> PyStr(<< "b" >>)])
RecC == PyDict([content |-> PyStr(<< "c" >>)])
RecD == PyDict([content |-> PyStr(<< "d" >>)])

MaxItems == 3      \* most top-level elements of a loaded list

\* what a loaded list may hold: records, lists of records (empty, of two, of
\* three), a list with a value that is no record, a list with a list in it, a
\* value that is neither
ItemVocab ==
    { RecA, RecB,
      PyList(<< >>),
      PyList(<< RecC, RecD >>),
      PyList(<< RecC, RecD, RecA >>),
      PyList(<< RecC, PyStr(<< "s" >>), RecD >>),
      PyList(<< PyList(<< RecC >>), RecD >>),
      PyStr(<< "s" >>) }

AggInputs == LineSeqsUpTo(ItemVocab, MaxItems)

\* records as the service is asked to write them: every field filled; the
\* fields that do not apply null, as the prompt asks; the fields empty; no
\* field but the number
Filled ==
    PyDict([article_number |-> PyStr(<< "n" >>), content |-> PyStr(<< "a", "b" >>),
            summary |-> PyStr(<< "s" >>), keywords |-> PyList(<< PyStr(<< "k" >>) >>)])
WithNulls ==
    PyDict([article_number |-> PyStr(<< "n" >>), content |-> PyStr(<< "a" >>),
            summary |-> PyNone, keywords |-> PyNone])
Empties ==
    PyDict([article_number |-> PyStr(<< "n" >>), content |-> PyStr(<< >>),
            summary |-> PyStr(<< >>), keywords |-> PyList(<< >>)])
Bare == PyDict([article_number |-> PyStr(<< "n" >>)])

\* records that carry an error marker: the orchestrator's, and one with a null
Failed     == PyDict([error |-> PyStr(<< "e" >>)])
FailedNull == PyDict([error |-> PyNone, content |-> PyStr(<< "a" >>)])

InfoVocab ==
    { Filled, WithNulls, Empties, Bare, Failed, FailedNull,
      PyList(<< Filled >>), PyStr(<< "s" >>) }

\* len(stats["sample_articles"]) < 5
SampleBound == 5

\* n times the same element
Repeated(x, n) == [j \in 1..n |-> x]

\* short files, and files that begin with more valid records, or more failed
\* ones, than the sample holds
InfoInputs ==
    {prefix \o tl : prefix \in {<< >>, Repeated(Filled, SampleBound + 1),
                                 Repeated(Failed, SampleBound + 1)},
                    tl \in LineSeqsUpTo(InfoVocab, MaxItems)}

\* a test that takes a list for a record
IsDictOrList(x) == x.type \in {"dict", "list"}

\* isinstance(x, dict)
IsDict(x) == x.type = "dict"

RECURSIVE Reverse(_)
Reverse(q) == IF q = << >> THEN << >> ELSE Append(Reverse(Tail(q)), Head(q))

\* an expansion that turns the nested list round
ExpandNestedReversed(item) ==
    IF item.type = "dict" THEN << item >>
    ELSE IF item.type = "list" THEN Reverse(SelectSeq(item.val, IsDict))
    ELSE << >>

\* one pass of the loop body: a dict is appended, a list gives its dict
\* sub-items in order, anything else is skipped
Expand(item) ==
    IF item.type = "dict" THEN << item >>
    ELSE IF item.type = "list" THEN SelectSeq(item.val, IsDict)
    ELSE << >>

RECURSIVE _process_data(_)
_process_data(items) ==
    IF items = << >> THEN << >>
    ELSE Expand(Head(items)) \o _process_data(Tail(items))

\* dict.get(key, default)
Get(d, key, default) == IF key \in DOMAIN d THEN d[key] ELSE default

\* bool(v)
Truthy(v) ==
    CASE v.type = "NoneType"        -> FALSE
      [] v.type \in {"str", "list"} -> v.val # << >>
      [] v.type = "dict"            -> DOMAIN v.val # {}
      [] OTHER                      -> TRUE

\* len(v): defined for strings, lists and dicts, TypeError for None
HasLen(v) == v.type \in {"str", "list", "dict"}
PyLen(v)  == IF v.type = "dict" THEN Cardinality(DOMAIN v.val) ELSE Len(v.val)

Count(b) == IF b THEN 1 ELSE 0

\* f"第{i+1}条"
DefaultNumber(n) == PyStr(<< Di, ToString(n + 1), Tiao >>)

\* the stats dict before the loop
EmptyStats(items) ==
    [total_articles         |-> Len(items),
     valid_articles         |-> 0,
     articles_with_content  |-> 0,
     articles_with_summary  |-> 0,
     articles_with_keywords |-> 0,
     sample_articles        |-> << >>,
     error_articles         |-> << >>]

\* the entry of sample_articles for the item of index n
Sample(d, n) ==
    [article_number |-> Get(d, "article_number", DefaultNumber(n)),
     content_length |-> PyLen(Get(d, "content", PyStr(<< >>))),
     has_summary    |-> Truthy(Get(d, "summary", PyNone)),
     keywords_count |-> PyLen(Get(d, "keywords", PyList(<< >>)))]

\* the counters after a record without error marker
Counted(st, d) ==
    [st EXCEPT !.valid_articles         = @ + 1,
               !.articles_with_content  = @ + Count(Truthy(Get(d, "content", PyNone))),
               !.articles_with_summary  = @ + Count(Truthy(Get(d, "summary", PyNone))),
               !.articles_with_keywords = @ + Count(Truthy(Get(d, "keywords", PyNone)))]

\* one pass of the loop body for the item of index n: the new stats, or the
\* TypeError of len(None)
InfoStep(st, item, n) ==
    IF item.type # "dict" THEN Return(st)
    ELSE IF "error" \notin DOMAIN item.val
    THEN IF Len(st.sample_articles) < SampleBound
         THEN IF HasLen(Get(item.val, "content", PyStr(<< >>)))
                   /\ HasLen(Get(item.val, "keywords", PyList(<< >>)))
              THEN Return([Counted(st, item.val) EXCEPT
                              !.sample_articles = Append(@, Sample(item.val, n))])
              ELSE Raise("TypeError")
         ELSE Return(Counted(st, item.val))
    ELSE Return([st EXCEPT !.error_articles =
                    Append(@, [index |-> n, error |-> Get(item.val, "error", PyNone)])])

RECURSIVE InfoLoop(_, _, _)
InfoLoop(items, k, st) ==
    IF k > Len(items) THEN Return(st)
    ELSE LET step == InfoStep(st, items[k], k - 1)
         IN  IF step.raised THEN step ELSE InfoLoop(items, k + 1, step.value)

\* the dict of the except branch
ErrorReport(e) == [error |-> e, total_articles |-> 0, valid_articles |-> 0]

\* extract_articles_info on a file that holds a list: the stats, or, when the
\* loop raised, the error report
extract_articles_info(items) ==
    LET done == InfoLoop(items, 1, EmptyStats(items))
    IN  IF done.raised THEN ErrorReport(done.exc) ELSE done.value

AggInit ==
    /\ data \in AggInputs \cup InfoInputs
    /\ processed_data = << >>
    /\ stats = << >>
    /\ agg_pc = "loaded"
    /\ raw = << >>
    /\ paragraphs = << >>
    /\ equiv = "raw"
    /\ IdleSeg
    /\ IdlePass
    /\ IdleRun

\* processed_data = self._process_data(data)
ProcessData ==
    /\ agg_pc \in {"loaded", "reported"}
    /\ processed_data' = _process_data(data)
    /\ agg_pc' = "processed"
    /\ UNCHANGED << raw, paragraphs, equiv, segVars, runVars, passVars, data, stats >>

\* stats = processor.extract_articles_info(file)
ExtractArticlesInfo ==
    /\ agg_pc = "loaded"
    /\ stats' = extract_articles_info(data)
    /\ agg_pc' = "reported"
    /\ UNCHANGED << raw, paragraphs, equiv, segVars, runVars, passVars, data,
                    processed_data >>

AggNext == ProcessData \/ ExtractArticlesInfo

AggSpec == AggInit /\ [][AggNext]_vars

----------------------------------------------------------------------------
(* Claims about segmentation, checked under SegSpec                        *)

PdfDone   == seg_pc \in {"pdf", "docx", "split"}
DocxDone  == seg_pc \in {"docx", "split"}
SplitDone == seg_pc = "split"

\* the marker a text begins with (empty when it begins with none)
LeadingMarker(s) == SubSeq(s, 1, MarkerEnd(s, 1))

\* C1: for a normalized text holding k article markers, the segmenter (either
\* variant, the Word one fed the lines of that text as paragraphs) yields exactly
\* k units, each with a non-empty title, and the k titles carry the k markers in
\* the order in which the text holds them.
C1_SegmentationCompleteness ==
    /\ PdfDone =>
         /\ Len(pdf_articles) = Len(Markers(normalized))
         /\ \A k \in 1..Len(pdf_articles) :
               /\ pdf_articles[k].title # << >>
               /\ LeadingMarker(pdf_articles[k].title) = Markers(normalized)[k]
    /\ (DocxDone /\ equiv = "normalized") =>
         /\ Len(docx_articles) = Len(Markers(normalized))
         /\ \A k \in 1..Len(docx_articles) :
               /\ docx_articles[k].title # << >>
               /\ LeadingMarker(docx_articles[k].title) = Markers(normalized)[k]

\* three markers, two of them different, one of them in mid-line in the raw text
C1_Witness ==
    /\ SplitDone /\ equiv = "normalized"
    /\ Len(Markers(normalized)) = 3
    /\ Len(pdf_articles) = 3 /\ Len(docx_articles) = 3
    /\ Markers(normalized)[1] # Markers(normalized)[2]
    /\ \E k \in MarkerStarts(raw) : k > 1 /\ raw[k - 1] # NL

\* the non-empty stripped lines a segmenter iterates over
RECURSIVE C3_UnitsFrom(_, _)
C3_NextMarkerLine(lines, k) ==
    IF \E m \in k..Len(lines) : MatchesMarker(lines[m])
    THEN CHOOSE m \in k..Len(lines) :
            MatchesMarker(lines[m]) /\ \A n \in k..(m - 1) : ~MatchesMarker(lines[n])
    ELSE Len(lines) + 1

\* the unit the claim describes for the marker line m, whose unit ends before line nxt
C3_ExpectedUnit(lines, m, nxt) ==
    LET e        == MarkerEnd(lines[m], 1)
        trailing == Strip(SubSeq(lines[m], e + 1, Len(lines[m])))
        rest     == SubSeq(lines, m + 1, nxt - 1)
    IN  [title   |-> SubSeq(lines[m], 1, e),
         content |-> Join(IF trailing # << >> THEN << trailing >> \o rest ELSE rest, << NL >>)]

C3_UnitsFrom(lines, k) ==
    LET m == C3_NextMarkerLine(lines, k)
    IN  IF m > Len(lines) THEN << >>
        ELSE LET nxt == C3_NextMarkerLine(lines, m + 1)
             IN  << C3_ExpectedUnit(lines, m, nxt) >> \o C3_UnitsFrom(lines, nxt)

C3_ExpectedUnits(lines) == C3_UnitsFrom(lines, 1)

\* C3: a marker line opens a unit whose title is exactly the marker token and whose
\* content starts with the text after the marker; the following non-marker lines
\* are appended to the content, a newline between them; both variants give the
\* scenario's two units for the scenario's text.
C3_TitleIsMarkerToken ==
    /\ PdfDone =>
         /\ pdf_articles = C3_ExpectedUnits(StrippedNonEmpty(Split(normalized, NL)))
         /\ raw = ScenarioText => pdf_articles = ScenarioExpected
    /\ DocxDone =>
         /\ docx_articles = C3_ExpectedUnits(StrippedNonEmpty(paragraphs))
         /\ raw = ScenarioText => docx_articles = ScenarioExpected

\* no paragraph of the Word document holds a line break
NoLineBreaks == \A k \in 1..Len(paragraphs) : \A n \in 1..Len(paragraphs[k]) : paragraphs[k][n] # NL

\* the Word half of C3 alone, for paragraphs that hold no line break
C3_DocxHalf ==
    (DocxDone /\ NoLineBreaks) =>
         /\ docx_articles = C3_ExpectedUnits(StrippedNonEmpty(paragraphs))
         /\ raw = ScenarioText => docx_articles = ScenarioExpected

\* C4: fed the same ordered sequence of non-empty lines, the line-oriented and the
\* paragraph-oriented segmenter give the same sequence of units.
C4_VariantsAgree ==
    (DocxDone /\ StrippedNonEmpty(paragraphs) = StrippedNonEmpty(Split(normalized, NL)))
        => pdf_articles = docx_articles

\* markers stand only at the start of a paragraph
WellFormed(paras) ==
    \A k \in 1..Len(paras) : MarkerStarts(Strip(paras[k])) \subseteq {1}

RECURSIVE RemoveWhitespace(_)
RemoveWhitespace(s) ==
    IF s = << >> THEN << >>
    ELSE IF Head(s) \in Whitespace THEN RemoveWhitespace(Tail(s))
    ELSE << Head(s) >> \o RemoveWhitespace(Tail(s))

ContentEquivalent(a, b) == RemoveWhitespace(a) = RemoveWhitespace(b)

SameUnits(units, segments) ==
    /\ Len(units) = Len(segments)
    /\ \A k \in 1..Len(units) : ContentEquivalent(UnitText(units[k]), segments[k])

\* C5 as stated: for well-formed input the state machine and the regex split give
\* the same number of units, in the same order, each content-equivalent.
C5_SplitEquivalence ==
    (SplitDone /\ WellFormed(paragraphs)) => SameUnits(docx_articles, regex_articles)

\* the segments that begin with a marker: all but a leading front-matter segment
MarkerSegments(segments) ==
    IF segments # << >> /\ ~MatchesMarker(segments[1]) THEN Tail(segments) ELSE segments

\* what does hold of C5: for well-formed paragraphs that hold no line break the
\* regex-split segments that begin with a marker match the state-machine units
\* one to one, in order, each content-equivalent; the regex split returns in
\* addition, as its first segment, the non-blank text before the first marker,
\* which the state machine discards.
C5_SplitEquivalenceAfterFrontMatter ==
    (SplitDone /\ WellFormed(paragraphs) /\ NoLineBreaks) =>
        /\ SameUnits(docx_articles, MarkerSegments(regex_articles))
        /\ Len(regex_articles) - Len(docx_articles) \in {0, 1}

\* front matter, then two units, the second with text after its marker
C5_Witness ==
    /\ SplitDone /\ WellFormed(paragraphs) /\ NoLineBreaks
    /\ Len(docx_articles) = 2 /\ Len(regex_articles) = 3
    /\ docx_articles[2].content # << >>

----------------------------------------------------------------------------
(* Claims about the orchestrator, checked under Spec and LiveSpec          *)

PyEq(a, b) == a.type = b.type /\ a.val = b.val

LoopEnded == pc = "done" \/ (pc = "loop" /\ i >= Len(articles))

BadJsonCall(k)  == outcomes[k].kind = "returned" /\ ~JsonValid(outcomes[k].response)
OtherFailure(k) == outcomes[k].kind = "raised" /\ outcomes[k].exc # "JSONDecodeError"

GoesOnAfter(k) ==
    /\ pc # "crashed"
    /\ pc = "sleep" => i = k - 1
    /\ pc = "loop" => i = k
    /\ pc = "await" => requests[Len(requests)].index = k
    /\ pc = "done" => k = Len(articles)

\* C6: an answer that is not valid JSON, given for the unit with zero-based index
\* k-1, leaves at position k the record {error: "Failed to parse JSON for article
\* k", raw_response: the answer unchanged}, and the run goes on: the next request
\* is the one for the unit with index k.
C6_ParseFailureRecord ==
    \A k \in 1..Len(outcomes) :
        BadJsonCall(k) =>
            /\ Len(all_results) >= k
            /\ PyEq(all_results[k],
                    PyDict([error        |-> << "Failed to parse JSON for article ", k >>,
                            raw_response |-> outcomes[k].response]))
            /\ k = Len(outcomes) => GoesOnAfter(k)
            /\ Len(requests) > k => requests[k + 1].index = k

\* the second unit's answer was unparsable and the third unit has been requested
C6_Witness ==
    /\ Len(outcomes) >= 2 /\ BadJsonCall(2)
    /\ Len(requests) = 3 /\ requests[3].index = 2
    /\ all_results[2].val.raw_response = RespGarbage

\* C7: a call that raises anything but a JSON parse failure leaves at its unit's
\* position a record with a generic error tag and no raw_response field, and the
\* run is not aborted.
C7_OtherErrorRecord ==
    \A k \in 1..Len(outcomes) :
        OtherFailure(k) =>
            /\ Len(all_results) >= k
            /\ all_results[k].type = "dict"
            /\ DOMAIN all_results[k].val = {"error"}
            /\ all_results[k].val.error = << "Other error for article ", k >>
            /\ k = Len(outcomes) => GoesOnAfter(k)

\* a timeout on the first unit, an authentication failure on the second, a good
\* answer on the third, and the run has finished
C7_Witness ==
    /\ pc = "done" /\ Len(outcomes) = 3
    /\ outcomes[1] = Raised("APITimeoutError")
    /\ outcomes[2] = Raised("AuthenticationError")
    /\ outcomes[3] = Returned(RespObject)
    /\ Len(output_file.data) = 3

\* C8: whatever the calls do, as long as each of them ends, no failure of a unit
\* aborts the run: until it has written the artifact, one record per unit in it,
\* the run always has a next step to take (so that, taking them, it gets there).
C8_RunCompletes ==
    \/ pc = "done" /\ output_file.written /\ Len(output_file.data) = Len(articles)
    \/ ENABLED LoopNext

\* C9: a run interrupted after k >= 1 records has those k records in the artifact.
C9_PartialResultsPersisted ==
    (pc = "interrupted" /\ Len(all_results) >= 1) =>
        (output_file.written /\ output_file.data = all_results)

\* the text the regex split works on is blank
BlankDocument == Strip(raw) = << >>

\* the document holds no article marker
NoMarkers == \A k \in 1..Len(raw) : MarkerEnd(raw, k) = 0

NoUnitsNoRequests ==
    /\ pc # "start" => articles = << >>
    /\ requests = << >>
    /\ pc \notin {"crashed", "interrupted", "raised"}
    /\ pc = "done" => (output_file.written /\ output_file.data = << >>)

----------------------------------------------------------------------------
(* Claims about the normalizer, checked under SegSpec                      *)

Cleaned   == seg_pc \notin {"idle", "raw"}
Recleaned == seg_pc \notin {"idle", "raw", "cleaned"}

\* C11: normalizing a normalized text changes nothing: for every text t,
\* _clean_pdf_text(_clean_pdf_text(t)) = _clean_pdf_text(t), also when t holds a
\* marker after its first line.
C11_NormalizationIdempotent ==
    Recleaned => renormalized = normalized

HasRun(s, c) == \E k \in 1..(Len(s) - 1) : s[k] = c /\ s[k + 1] = c

NoCarriageReturn == \A k \in 1..Len(normalized) : normalized[k] # CR
NoSpaceRun       == ~HasRun(normalized, SP)
NoBlankLine      == ~HasRun(normalized, NL)

\* the two thirds of C19 that hold on every input
C19_LineEndingsAndSpaces == Cleaned => (NoCarriageReturn /\ NoSpaceRun)

\* C19: the normalizer's output holds no carriage return, no run of two or more
\* spaces and no run of two or more newlines, whatever the input, markers or not.
C19_NoRunsInOutput ==
    Cleaned => (NoCarriageReturn /\ NoSpaceRun /\ NoBlankLine)

\* C20: in the normalizer's output every marker stands at the very start of the
\* text or right after a newline; so every marker of the input, mid-line or not,
\* opens a line of its own and the line-oriented segmenter opens a unit for it.
C20_MarkersStartLines ==
    /\ Cleaned =>
         \A k \in MarkerStarts(normalized) : k = 1 \/ normalized[k - 1] = NL
    /\ PdfDone =>
         /\ Len(pdf_articles) = Len(Markers(raw))
         /\ \A k \in 1..Len(pdf_articles) :
               LeadingMarker(pdf_articles[k].title) = Markers(raw)[k]

\* a marker in mid-line in the input, moved to a line of its own, two units found
C20_Witness ==
    /\ PdfDone
    /\ \E k \in MarkerStarts(raw) : k > 1 /\ raw[k - 1] \notin {NL, CR}
    /\ \E k \in MarkerStarts(normalized) : k > 1 /\ normalized[k - 1] = NL
    /\ Len(pdf_articles) = 2

----------------------------------------------------------------------------
(* Claims about the aggregator, checked under AggSpec                      *)

Processed == agg_pc = "processed"

IsRecordSeq(x) == x.type = "list" /\ \A j \in 1..Len(x.val) : IsDict(x.val[j])

\* every element is a record or a sequence of records
RecordsAndRecordSeqs(items) ==
    \A k \in 1..Len(items) : IsDict(items[k]) \/ IsRecordSeq(items[k])

\* how many records an element stands for
Size(item) == IF IsDict(item) THEN 1 ELSE Len(item.val)

\* how many records the elements before the k-th stand for
RECURSIVE Offset(_, _)
Offset(items, k) == IF k <= 1 THEN 0 ELSE Offset(items, k - 1) + Size(items[k - 1])

\* C12: for a list whose elements are records and sequences of records, the
\* flattened list has as many elements as there are scalar records plus the
\* lengths of the nested sequences, and each nested sequence stands, in its own
\* order, where its element stood: the element k fills the positions after those
\* of the elements before it.
C12_FlattenInPlace ==
    (Processed /\ RecordsAndRecordSeqs(data)) =>
        /\ Len(processed_data) = Offset(data, Len(data) + 1)
        /\ \A k \in 1..Len(data) :
              IF IsDict(data[k])
              THEN PyEq(processed_data[Offset(data, k) + 1], data[k])
              ELSE \A j \in 1..Len(data[k].val) :
                      PyEq(processed_data[Offset(data, k) + j], data[k].val[j])

\* two scalar records with a nested sequence of three between them
C12_Witness ==
    /\ Processed
    /\ data = << RecA, PyList(<< RecC, RecD, RecA >>), RecB >>
    /\ processed_data = << RecA, RecC, RecD, RecA, RecB >>

----------------------------------------------------------------------------
(* Further claims about the orchestrator, checked under Spec               *)

\* C13: when the input file is missing or cannot be read, the run ends before any
\* segmentation: no unit, no service request, no artifact, and an exception
\* leaves the pipeline for the caller; the Word parser, which first runs the
\* context extraction (and that swallows the failure), ends the same way.
C13_MissingFileAborts ==
    source_file # "ok" =>
        /\ pc \in {"start", "context", "raised"}
        /\ articles = << >> /\ all_results = << >>
        /\ requests = << >>
        /\ output_file = NoFile
        /\ pc = ReadPoint => ENABLED ReadFails
        /\ pc = "raised" <=> raised_exc # "none"

\* the Word parser on a missing file: context extraction came back empty, then
\* the segmenter raised
C13_Witness ==
    /\ source_file = "missing" /\ parser = "docx" /\ use_structured_extraction
    /\ pc = "raised" /\ raised_exc = "Exception"
    /\ document_context = << >>
    /\ requests = << >> /\ output_file = NoFile

\* the run has ended by itself: finished, or left by an exception of a call
RunOver == pc \in {"done", "crashed"}

\* C14: each unit causes exactly one request: no unit is requested twice, every
\* call that ended - with an answer, an unparsable answer, a timeout or any other
\* exception - left a record, and a run over N units has issued N requests when
\* it is over.
C14_OneRequestPerUnit ==
    /\ \A a, b \in 1..Len(requests) : requests[a].index = requests[b].index => a = b
    /\ pc # "interrupted" => Len(all_results) = Len(outcomes)
    /\ RunOver => Len(requests) = Len(articles)

\* the part of C14 that holds: no unit is ever requested twice, requests go out
\* in unit order
C14_NoRetry ==
    \A k \in 1..Len(requests) : requests[k].index = k - 1

\* C15: at most one request is outstanding, and when the request for a unit goes
\* out every earlier request has ended and its record is in the list.
C15_StrictlySequential ==
    /\ Len(requests) - Len(outcomes) \in {0, 1}
    /\ pc = "await" => Len(requests) = Len(outcomes) + 1
    /\ Len(requests) = Len(outcomes) + 1 => pc \in {"await", "interrupted"}
    /\ pc = "await" =>
          /\ Len(all_results) = Len(requests) - 1
          /\ requests[Len(requests)].index = Len(all_results)

\* the third request is outstanding, two records are in the list
C15_Witness ==
    /\ pc = "await" /\ Len(requests) = 3
    /\ Len(outcomes) = 2 /\ Len(all_results) = 2

\* C16: with a positive delay one sleep follows every unit, whether its call
\* gave a record or an error record, before the next request goes out: k - 1
\* sleeps precede the k-th request and N sleeps the end of the loop; with a delay
\* of zero or less there is never a sleep.
C16_SleepBetweenRequests ==
    /\ delay > 0 =>
          /\ pc = "await" => sleeps = Len(requests) - 1
          /\ pc = "sleep" => sleeps = Len(all_results) - 1
          /\ pc \in {"loop", "done"} => sleeps = Len(all_results)
    /\ delay <= 0 => sleeps = 0 /\ pc # "sleep"

\* delay 1, three units, the second one failed, three sleeps
C16_Witness ==
    /\ delay = 1 /\ pc = "done" /\ Len(articles) = 3
    /\ OtherFailure(2)
    /\ sleeps = 3

\* the result list that the calls' outcomes determine, whatever the delay
ResultsOf(outs, n) == [k \in 1..n |-> parse_single_article(k - 1, outs[k]).value]

\* C17: the result list is a function of the units and of what the calls did, in
\* which the delay has no part: two runs on the same units with the same outcomes
\* hold the same records, whatever their delays.
C17_DelayIndependent ==
    /\ Len(all_results) <= Len(outcomes)
    /\ all_results = ResultsOf(outcomes, Len(all_results))
    /\ pc = "done" =>
          /\ Len(all_results) = Len(articles)
          /\ output_file.data = ResultsOf(outcomes, Len(articles))

\* a finished run with delay 1 over two units, one answered, one not
C17_Witness ==
    /\ delay = 1 /\ pc = "done" /\ Len(articles) = 2 /\ sleeps = 2
    /\ outcomes[1] = Returned(RespArray) /\ outcomes[2] = Raised("APITimeoutError")
    /\ output_file.data = ResultsOf(outcomes, 2)

\* a step that writes the file
Writes == output_file' # output_file

\* C18: the artifact is written once, when the pipeline completes: the file is
\* untouched until the last unit's record is in the list, the one write holds
\* all N records in order, and nothing is written after it.
C18_WrittenOnceAtEnd ==
    /\ [](output_file.written => (pc = "done" /\ output_file.data = all_results
                                    /\ Len(all_results) = Len(articles)))
    /\ [][Writes => /\ output_file = NoFile
                    /\ i >= Len(articles)
                    /\ Len(all_results) = Len(articles)
                    /\ output_file' = Written(all_results)]_vars

\* three records written
C18_Witness ==
    /\ pc = "done" /\ output_file.written
    /\ Len(articles) = 3 /\ Len(output_file.data) = 3
    /\ BadJsonCall(1)

----------------------------------------------------------------------------
(* Further claims about segmentation, checked under SegSpec                *)

\* the lines each segmenter iterates over, stripped, the blank ones left out
PdfLines  == StrippedNonEmpty(Split(normalized, NL))
DocxLines == StrippedNonEmpty(paragraphs)

MarkerLines(ls) == {m \in 1..Len(ls) : MatchesMarker(ls[m])}

\* the position, among the units, of the unit the marker line k opens
UnitIndex(ls, k) == Cardinality({m \in MarkerLines(ls) : m <= k})

\* a line that holds a marker and nothing else
MarkerOnly(line) == MatchesMarker(line) /\ MarkerEnd(line, 1) = Len(line)

\* no content line between the marker line k and the next marker line (or the end)
NoContentFollows(ls, k) == k = Len(ls) \/ MatchesMarker(ls[k + 1])

EmptyUnitsKept(ls, units) ==
    /\ Len(units) = Cardinality(MarkerLines(ls))
    /\ \A k \in 1..Len(ls) :
          (MarkerOnly(ls[k]) /\ NoContentFollows(ls, k)) =>
              units[UnitIndex(ls, k)] = [title |-> ls[k], content |-> << >>]

\* C21: marker lines that follow one another with no line between them open a
\* unit each; the unit of a marker line that holds only the marker and is followed
\* by no content line is in the output, at its place, with empty content: there
\* is one unit per marker line, none dropped, none merged.
C21_EmptyUnitsKept ==
    /\ PdfDone  => EmptyUnitsKept(PdfLines, pdf_articles)
    /\ DocxDone => EmptyUnitsKept(DocxLines, docx_articles)

\* the same marker on two lines running, then a line of content under a third
C21_Witness ==
    /\ DocxDone /\ equiv = "raw"
    /\ Len(DocxLines) = 3 /\ DocxLines[1] = DocxLines[2] /\ MarkerOnly(DocxLines[1])
    /\ MatchesMarker(DocxLines[3]) /\ ~MarkerOnly(DocxLines[3])
    /\ Len(pdf_articles) = 3 /\ Len(docx_articles) = 3
    /\ pdf_articles[1].content = << >> /\ pdf_articles[2].content = << >>
    /\ docx_articles[1].content = << >> /\ docx_articles[2].content = << >>
    /\ docx_articles[3].content # << >>

\* the text the regex split is given
SplitText == read_docx_file(paragraphs)

RECURSIVE TotalLen(_)
TotalLen(pieces) == IF pieces = << >> THEN 0 ELSE Len(Head(pieces)) + TotalLen(Tail(pieces))

\* the positions of the text after which a sequence of pieces is cut
CutPositions(pieces) == {TotalLen(SubSeq(pieces, 1, j)) : j \in 1..(Len(pieces) - 1)}

\* C22: the regex split cuts the text exactly in front of every marker match: the
\* pieces put together again are the text, the cuts are the positions just before
\* the markers, the returned segments are the pieces that are not blank, each
\* but possibly the first begins with a marker, and none holds a marker elsewhere.
C22_SplitAtMarkers ==
    SplitDone =>
        /\ Join(regex_pieces, << >>) = SplitText
        /\ Len(regex_pieces) = Cardinality(MarkerStarts(SplitText)) + 1
        /\ CutPositions(regex_pieces) = {k - 1 : k \in MarkerStarts(SplitText)}
        /\ regex_articles = SelectSeq(regex_pieces, LAMBDA art : Strip(art) # << >>)
        /\ \A k \in 1..Len(regex_articles) :
              /\ Strip(regex_articles[k]) # << >>
              /\ MarkerStarts(regex_articles[k]) \subseteq {1}
              /\ k > 1 => MatchesMarker(regex_articles[k])

\* a text that begins with a marker: the empty piece in front of it is dropped,
\* two segments are returned, the second of two lines
C22_Witness ==
    /\ SplitDone
    /\ Len(regex_pieces) = 3 /\ regex_pieces[1] = << >>
    /\ Len(regex_articles) = 2
    /\ \E k \in 1..Len(regex_articles[2]) : regex_articles[2][k] = NL

\* the lines of a unit's content
ContentLines(unit) == IF unit.content = << >> THEN << >> ELSE Split(unit.content, NL)

NoMarkerLineInContent(units) ==
    \A k \in 1..Len(units) :
        \A n \in 1..Len(ContentLines(units[k])) : ~MatchesMarker(ContentLines(units[k])[n])

\* C28: in every unit either variant of the segmenter produces, no line of the
\* content begins with an article marker: a line that begins with a marker opens
\* a unit and is never taken into the content of the unit before it.
C28_NoMarkerLineInContent ==
    /\ PdfDone  => NoMarkerLineInContent(pdf_articles)
    /\ DocxDone => NoMarkerLineInContent(docx_articles)

\* what does hold of C28: the line-oriented variant, and the paragraph-oriented one
\* on paragraphs that hold no line break
C28_WithoutLineBreaks ==
    /\ PdfDone => NoMarkerLineInContent(pdf_articles)
    /\ (DocxDone /\ NoLineBreaks) => NoMarkerLineInContent(docx_articles)

\* the text of a sequence of units, all whitespace left out
RECURSIVE UnitsText(_)
UnitsText(units) ==
    IF units = << >> THEN << >>
    ELSE RemoveWhitespace(Head(units).title \o Head(units).content) \o UnitsText(Tail(units))

\* the text of the lines from the first marker line on, all whitespace left out
TextFromFirstMarker(ls) ==
    LET m == C3_NextMarkerLine(ls, 1)
    IN  RemoveWhitespace(Join(SubSeq(ls, m, Len(ls)), << >>))

\* the lines of a sequence of units: the title, then the lines of the content
RECURSIVE UnitsLines(_)
UnitsLines(units) ==
    IF units = << >> THEN << >>
    ELSE << Head(units).title >> \o ContentLines(Head(units)) \o UnitsLines(Tail(units))

\* C29: after the first marker line nothing is lost, doubled or moved: the units'
\* titles and contents, read in order, give the non-empty stripped input lines
\* from the first marker line to the end (whitespace apart).
C29_NothingLost ==
    /\ PdfDone  => UnitsText(pdf_articles) = TextFromFirstMarker(PdfLines)
    /\ DocxDone => UnitsText(docx_articles) = TextFromFirstMarker(DocxLines)

\* what does hold of C29: the line-oriented variant gives back the very lines (the
\* marker line whole, as title), the paragraph-oriented one the text of paragraphs
\* that hold no line break
C29_WithoutLineBreaks ==
    /\ PdfDone =>
          UnitsLines(pdf_articles)
              = SubSeq(PdfLines, C3_NextMarkerLine(PdfLines, 1), Len(PdfLines))
    /\ (DocxDone /\ NoLineBreaks) => UnitsText(docx_articles) = TextFromFirstMarker(DocxLines)

----------------------------------------------------------------------------
(* The context scan on documents that reach its budget, and its claim      *)

\* longest tail of a drawn document (the paragraphs after the filler)
MaxCtxParas == 3

\* a keyword line, the keyword typed with a space, a marker line, a marker line
\* that holds the keyword, an ordinary line, a blank paragraph
CtxVocab ==
    { << "k", "w" >>,
      << "k", SP, "w" >>,
      << Di, "1", Tiao >>,
      << Di, "1", Tiao, "k", "w" >>,
      << "y" >>,
      << SP >> }

\* n ordinary paragraphs
Filler(n) == [j \in 1..n |-> << "y" >>]

\* documents short of the budget, and documents whose tail straddles it
CtxInputs ==
    {Filler(n) \o tl : n \in {0, ContextBudget - 2, ContextBudget - 1},
                       tl \in LineSeqsUpTo(CtxVocab, MaxCtxParas)}

CtxInit ==
    /\ source_file \in {"ok", "missing"}
    /\ paragraphs \in (IF source_file = "ok" THEN CtxInputs ELSE {<< >>})
    /\ raw = read_docx_file(paragraphs)
    /\ equiv = "raw"
    /\ IdleSeg
    /\ IdlePass
    /\ IdleAgg
    /\ parser = "docx"
    /\ use_structured_extraction = TRUE
    /\ delay = 0
    /\ pc = "start"
    /\ articles = << >>
    /\ i = 0
    /\ all_results = << >>
    /\ output_file = NoFile
    /\ requests = << >>
    /\ outcomes = << >>
    /\ sleeps = 0
    /\ document_context = << >>
    /\ raised_exc = "none"

CtxNext == ExtractContext

CtxSpec == CtxInit /\ [][CtxNext]_vars

\* the lines of the returned context
ContextLines == IF document_context = << >> THEN << >> ELSE Split(document_context, NL)

\* the first paragraph that begins with a marker (past the end when none does)
FirstMarkerParagraph ==
    IF \E m \in 1..Len(paragraphs) : MatchesMarker(Strip(paragraphs[m]))
    THEN CHOOSE m \in 1..Len(paragraphs) :
            /\ MatchesMarker(Strip(paragraphs[m]))
            /\ \A n \in 1..(m - 1) : ~MatchesMarker(Strip(paragraphs[n]))
    ELSE Len(paragraphs) + 1

Min(a, b) == IF a <= b THEN a ELSE b

\* every line of the context is the text of one of the first n paragraphs
ContextWithin(n) ==
    \A c \in 1..Len(ContextLines) :
        \E p \in 1..Min(n, Len(paragraphs)) : Strip(paragraphs[p]) = ContextLines[c]

\* C23: the scan stops at the first marker line or at the end of the budget of 20
\* paragraphs, whichever comes first: every line of the returned context stands
\* before the first marker line and among the first 20 paragraphs.
C23_ContextStopsAtMarker ==
    pc = "context" => ContextWithin(Min(FirstMarkerParagraph - 1, ContextBudget))

\* what does hold of C23: the context is made of the keyword lines among the
\* first 20 paragraphs up to the first marker line, that line included
C23_ContextUpToMarkerLine ==
    pc = "context" =>
        /\ ContextWithin(Min(FirstMarkerParagraph, ContextBudget))
        /\ ContextLines =
              SelectSeq(StrippedNonEmpty(SubSeq(paragraphs, 1,
                            Min(Min(FirstMarkerParagraph, ContextBudget), Len(paragraphs)))),
                        HasKeyword)

\* the budget at work: a keyword line in paragraph 21 and none in the context
C23_BudgetReached ==
    /\ pc = "context" /\ Len(paragraphs) = ContextBudget + 1
    /\ HasKeyword(paragraphs[ContextBudget + 1])
    /\ FirstMarkerParagraph > Len(paragraphs)
    /\ document_context = << >>

----------------------------------------------------------------------------
(* Further claims about the aggregator and the report, checked under AggSpec *)

\* how many records of the output an element accounts for: a record one, a
\* sequence as many as it holds records, anything else none
Kept(item) ==
    IF item.type = "dict" THEN 1
    ELSE IF item.type = "list"
    THEN Cardinality({j \in 1..Len(item.val) : item.val[j].type = "dict"})
    ELSE 0

RECURSIVE KeptBefore(_, _)
KeptBefore(items, k) == IF k <= 1 THEN 0 ELSE KeptBefore(items, k - 1) + Kept(items[k - 1])

\* C24: the aggregator's output is flat for every input: each element of it is a
\* record, none a sequence or another value; an element of the input that is
\* neither a record nor a sequence is dropped and the elements after it are
\* still taken: every top-level record stands in the output after the records
\* the elements before it account for.
C24_FlatRecordsOnly ==
    Processed =>
        /\ \A k \in 1..Len(processed_data) : processed_data[k].type = "dict"
        /\ Len(processed_data) = KeptBefore(data, Len(data) + 1)
        /\ \A k \in 1..Len(data) :
              data[k].type = "dict" => processed_data[KeptBefore(data, k) + 1] = data[k]

\* a value that is dropped, a record after it, then a sequence that holds a
\* sequence and a record
C24_Witness ==
    /\ Processed
    /\ data = << PyStr(<< "s" >>), RecA, PyList(<< PyList(<< RecC >>), RecD >>) >>
    /\ processed_data = << RecA, RecD >>

Reported == agg_pc = "reported"

\* the report is the stats dict, not the dict of the except branch
IsStats == "error" \notin DOMAIN stats

\* C25: whatever the length of the file, the report holds at most a fixed number
\* of sampled valid records and at most a fixed number of sampled error records.
C25_BoundedSamples ==
    (Reported /\ IsStats) =>
        /\ Len(stats.sample_articles) <= SampleBound
        /\ Len(stats.error_articles) <= SampleBound

\* what does hold of C25: the sample of valid records is bounded, and every
\* record with an error marker is reported
C25_ValidSampleBounded ==
    (Reported /\ IsStats) =>
        /\ Len(stats.sample_articles) <= SampleBound
        /\ Len(stats.error_articles)
              = Cardinality({k \in 1..Len(data) :
                                data[k].type = "dict" /\ "error" \in DOMAIN data[k].val})

\* more valid records than the sample holds: five of them sampled
C25_SampleFull ==
    /\ Reported /\ IsStats
    /\ stats.valid_articles = SampleBound + 2
    /\ Len(stats.sample_articles) = SampleBound

AllRecords(items) == \A k \in 1..Len(items) : items[k].type = "dict"

ErrorFree(items) == {k \in 1..Len(items) : "error" \notin DOMAIN items[k].val}

\* C26: for a file whose elements are all records the report's totals agree:
\* total_articles is the length of the list, valid_articles the number of
\* records without error marker, valid_articles and the reported error records
\* add up to total_articles, and none of the content, summary and keywords
\* counts exceeds valid_articles.
C26_TotalsConsistent ==
    (Reported /\ AllRecords(data)) =>
        /\ stats.total_articles = Len(data)
        /\ stats.valid_articles = Cardinality(ErrorFree(data))
        /\ IsStats
        /\ stats.valid_articles + Len(stats.error_articles) = stats.total_articles
        /\ stats.articles_with_content  <= stats.valid_articles
        /\ stats.articles_with_summary  <= stats.valid_articles
        /\ stats.articles_with_keywords <= stats.valid_articles

\* what does hold of C26: the totals agree whenever the loop came to its end
C26_TotalsWhenNoException ==
    (Reported /\ AllRecords(data) /\ IsStats) =>
        /\ stats.total_articles = Len(data)
        /\ stats.valid_articles = Cardinality(ErrorFree(data))
        /\ stats.valid_articles + Len(stats.error_articles) = stats.total_articles
        /\ stats.articles_with_content  <= stats.valid_articles
        /\ stats.articles_with_summary  <= stats.valid_articles
        /\ stats.articles_with_keywords <= stats.valid_articles

\* a null field met after the sample is full does no harm
C26_NullAfterSample ==
    /\ Reported /\ IsStats /\ AllRecords(data)
    /\ Len(data) = SampleBound + 2 /\ data[SampleBound + 2] = WithNulls
    /\ stats.valid_articles = SampleBound + 2
    /\ stats.articles_with_keywords = SampleBound + 1

----------------------------------------------------------------------------
(* The segmenter run step by step, twice on the same document, and its claim *)

\* calls made on one document
MaxCalls == 2

PassInputs == {Join(ls, << NL >>) : ls \in LineSeqsUpTo(RunVocab, MaxLines)}

PassInit ==
    /\ raw \in PassInputs
    /\ equiv = "raw"
    /\ paragraphs = ParagraphsOf(raw)
    /\ IdleSeg
    /\ IdleAgg
    /\ IdlePass
    /\ source_file = "ok"
    /\ parser \in {"pdf", "docx"}
    /\ use_structured_extraction = TRUE
    /\ delay = 0
    /\ pc = "idle"
    /\ articles = << >>
    /\ i = 0
    /\ all_results = << >>
    /\ output_file = NoFile
    /\ requests = << >>
    /\ outcomes = << >>
    /\ sleeps = 0
    /\ document_context = << >>
    /\ raised_exc = "none"

\* a call that goes on with what the call before it left
StaleLocals == [articles |-> seg_acc, current_article |-> seg_current]

\* articles = [] and current_article = {"title": "", "content": ""}
FreshLocals == [articles |-> << >>, current_article |-> NoArticle]

\* what the call iterates over: the lines of the cleaned text, or doc.paragraphs
LinesOfDocument ==
    IF parser = "pdf" THEN Split(_clean_pdf_text(raw), NL) ELSE paragraphs

\* the segmenter is called: the document is read and the locals are set up
CallSegmenter ==
    /\ seg_phase = "idle"
    /\ Len(seg_returned) < MaxCalls
    /\ seg_lines' = LinesOfDocument
    /\ seg_acc' = FreshLocals.articles
    /\ seg_current' = FreshLocals.current_article
    /\ seg_k' = 1
    /\ seg_visits' = << >>
    /\ seg_phase' = "loop"
    /\ UNCHANGED << raw, paragraphs, equiv, segVars, runVars, aggVars, seg_returned >>

\* the new unit a marker line opens, in the variant that runs
OpenUnit(text) == IF parser = "pdf" THEN PdfOpenUnit(text) ELSE DocxOpenUnit(text)

\* one iteration of the for loop
VisitLine ==
    /\ seg_phase = "loop"
    /\ seg_k <= Len(seg_lines)
    /\ LET text == Strip(seg_lines[seg_k])
       IN  IF text = << >>
           THEN UNCHANGED << seg_acc, seg_current >>
           ELSE IF MatchesMarker(text)
           THEN /\ seg_acc' = Flush(seg_acc, seg_current)
                /\ seg_current' = OpenUnit(text)
           ELSE IF seg_current.title # << >>
           THEN /\ seg_current' = AddLine(seg_current, text)
                /\ UNCHANGED seg_acc
           ELSE UNCHANGED << seg_acc, seg_current >>
    /\ seg_visits' = Append(seg_visits, seg_k)
    /\ seg_k' = seg_k + 1
    /\ UNCHANGED << raw, paragraphs, equiv, segVars, runVars, aggVars, seg_phase,
                    seg_lines, seg_returned >>

\* the loop is over: the last unit is appended and the list returned
ReturnArticles ==
    /\ seg_phase = "loop"
    /\ seg_k > Len(seg_lines)
    /\ seg_acc' = Flush(seg_acc, seg_current)
    /\ seg_returned' = Append(seg_returned, seg_acc')
    /\ seg_phase' = "idle"
    /\ UNCHANGED << raw, paragraphs, equiv, segVars, runVars, aggVars, seg_lines, seg_k,
                    seg_current, seg_visits >>

PassNext == CallSegmenter \/ VisitLine \/ ReturnArticles

PassSpec == PassInit /\ [][PassNext]_vars

\* the positions 1..n in order
UpTo(n) == [j \in 1..n |-> j]

\* what one call on the document gives, whatever came before it
ArticlesOfDocument ==
    IF parser = "pdf" THEN extract_articles_from_pdf(raw)
    ELSE extract_articles_from_docx(paragraphs)

\* C27: a call is one pass: the loop visits the lines in order, each once, moves
\* on by one line at every step and returns when the last line is behind it;
\* and the segmenter keeps nothing between calls: every call starts from empty
\* locals, and a second call on the same document returns what the first did.
C27_SinglePassStateless ==
    /\ [](/\ seg_visits = UpTo(Len(seg_visits))
          /\ seg_phase = "loop" => (seg_k = Len(seg_visits) + 1 /\ seg_k <= Len(seg_lines) + 1)
          /\ (seg_phase = "idle" /\ seg_returned # << >>) =>
                 seg_visits = UpTo(Len(seg_lines))
          /\ \A c \in 1..Len(seg_returned) : seg_returned[c] = ArticlesOfDocument)
    /\ [][/\ (seg_phase = "loop" /\ seg_phase' = "loop") => seg_k' = seg_k + 1
          /\ (seg_phase = "idle" /\ seg_phase' = "loop") =>
                 (seg_acc' = << >> /\ seg_current' = NoArticle /\ seg_k' = 1)
          /\ (seg_phase = "loop" /\ seg_phase' = "idle") => seg_k = Len(seg_lines) + 1]_vars

\* two calls made on a document of three lines, each returned the same one unit,
\* a unit with content
C27_Witness ==
    /\ seg_phase = "idle" /\ Len(seg_returned) = 2
    /\ Len(seg_lines) = 3 /\ seg_visits = << 1, 2, 3 >>
    /\ Len(seg_returned[1]) = 1 /\ seg_returned[2] = seg_returned[1]
    /\ seg_returned[1][1].content # << >>

----------------------------------------------------------------------------
(* A further claim about the orchestrator, checked under Spec              *)

\* the units whose processing is over: their call has returned or raised
Processed_units == Len(outcomes)

\* C30: the result list only grows at its end, by one record for every unit
\* processed, a failed unit too: after k units the list holds k records, the
\* record at position j the one produced for unit j, so that it is the first
\* part of the list the run ends with.
C30_AppendOnlyOnePerUnit ==
    /\ Len(all_results) = Processed_units
    /\ \A k \in 1..Len(all_results) :
          PyEq(all_results[k], parse_single_article(k - 1, outcomes[k]).value)

\* what does hold of C30: every step that changes the list appends one record
\* to it and leaves the records before it as they were, where they were
C30_AppendOnly ==
    [][all_results' # all_results =>
          /\ Len(all_results') = Len(all_results) + 1
          /\ SubSeq(all_results', 1, Len(all_results)) = all_results
          /\ Len(outcomes') = Len(outcomes) + 1]_vars

============================================================================
